---- MODULE Spec2Model ----
(***************************************************************************)
(* pandera/api/polars/model_components.py: the Field function, which       *)
(* compiles constraint keywords into a sequence of checks through the      *)
(* table built by _check_dispatch, and the FieldInfo.name property, which  *)
(* resolves a descriptor's name to a string or to a polars expression.     *)
(***************************************************************************)
EXTENDS Integers, Sequences, FiniteSets, TLC

VARIABLES
    REGISTERED_CUSTOM_CHECKS,  \* Check.REGISTERED_CUSTOM_CHECKS: an insertion-ordered dict
    fields,                    \* the FieldInfo objects returned so far
    ncalls,                    \* number of Field calls made so far
    call,                      \* the last Field call: its keyword arguments, in the caller's order
    outcome,                   \* what the last Field call did
    rejected,                  \* the keywords named by the SchemaInitErrors raised so far
    names                      \* the results of the name resolutions since the last assignment

vars == <<REGISTERED_CUSTOM_CHECKS, fields, ncalls, call, outcome, rejected, names>>

-----------------------------------------------------------------------------
(* Bounds *)

\* the number of keyword arguments one Field call supplies
MaxArgs == 2
\* the number of Field calls in a scenario of several Field calls
MaxCalls == 2

-----------------------------------------------------------------------------
(* Python values *)

None == [kind |-> "None"]
PyInt(n) == [kind |-> "int", v |-> n]
PyBool(b) == [kind |-> "bool", b |-> b]
PyStr(t) == [kind |-> "str", s |-> t]
\* a dict with string keys: a set of <<key, value>> pairs, one per key
PyDict(items) == [kind |-> "dict", items |-> items]

Keys(d) == {it[1] : it \in d.items}

SeqRange(s) == {s[i] : i \in 1..Len(s)}

-----------------------------------------------------------------------------
(* Field: the parameters *)

\* the named parameters of Field with their defaults
Defaults ==
    [eq |-> None, ne |-> None, gt |-> None, ge |-> None, lt |-> None, le |-> None,
     in_range |-> None, isin |-> None, notin |-> None,
     str_contains |-> None, str_endswith |-> None, str_length |-> None,
     str_matches |-> None, str_startswith |-> None,
     nullable |-> PyBool(FALSE), unique |-> PyBool(FALSE), coerce |-> PyBool(FALSE),
     regex |-> PyBool(FALSE), ignore_na |-> PyBool(TRUE), raise_warning |-> PyBool(FALSE),
     n_failure_cases |-> None, alias |-> None, check_name |-> None,
     dtype_kwargs |-> None, title |-> None, description |-> None,
     default |-> None, metadata |-> None, return_expresion |-> PyBool(FALSE)]

ParamNames == DOMAIN Defaults

\* the names a call supplies
CallNames(c) == {c[i][1] : i \in 1..Len(c)}

\* the value a call supplies for a name it supplies
CallValue(c, n) == c[CHOOSE i \in 1..Len(c) : c[i][1] = n][2]

\* the binding of the named parameters: the supplied value or the default
Local(c, p) == IF p \in CallNames(c) THEN CallValue(c, p) ELSE Defaults[p]

\* **kwargs: the supplied keywords that are no named parameter, in the caller's order
Kwargs(c) ==
    LET Extra(a) == a[1] \notin ParamNames
    IN  SelectSeq(c, Extra)

\* the shared options handed to every check constructor
check_kwargs(c) ==
    PyDict({<<"ignore_na", Local(c, "ignore_na")>>,
          <<"raise_warning", Local(c, "raise_warning")>>,
          <<"n_failure_cases", Local(c, "n_failure_cases")>>})

\* kwargs.get(name): None when the keyword is not among **kwargs
KwargsGet(c, n) ==
    IF n \in CallNames(c) \ ParamNames THEN CallValue(c, n) ELSE None

\* args.get(name, default), args being locals(): the named parameters, kwargs
\* and check_kwargs
ArgsGet(c, n, default) ==
    IF n \in ParamNames THEN Local(c, n)
    ELSE IF n = "kwargs" THEN PyDict(SeqRange(Kwargs(c)))
    ELSE IF n = "check_kwargs" THEN check_kwargs(c)
    ELSE default

\* the value the dispatch loop reads for one key of the table
ArgValue(c, n) == ArgsGet(c, n, KwargsGet(c, n))

-----------------------------------------------------------------------------
(* _check_dispatch *)

FixedDispatch ==
    << <<"eq", "Check.equal_to">>,
       <<"ne", "Check.not_equal_to">>,
       <<"gt", "Check.greater_than">>,
       <<"ge", "Check.greater_than_or_equal_to">>,
       <<"lt", "Check.less_than">>,
       <<"le", "Check.less_than_or_equal_to">>,
       <<"in_range", "Check.in_range">>,
       <<"between", "Check.between">>,
       <<"isin", "Check.isin">>,
       <<"notin", "Check.notin">>,
       <<"str_contains", "Check.str_contains">>,
       <<"str_endswith", "Check.str_endswith">>,
       <<"str_matches", "Check.str_matches">>,
       <<"str_length", "Check.str_length">>,
       <<"str_startswith", "Check.str_startswith">>,
       <<"unique_values_eq", "Check.unique_values_eq">> >>

\* the keys of an insertion-ordered dict, kept as a sequence of <<key, value>>
DictKeys(d) == {d[i][1] : i \in 1..Len(d)}

\* d[k] = v on an insertion-ordered dict: a key already there keeps its place
DictSet(d, k, v) ==
    IF k \in DictKeys(d)
    THEN [i \in 1..Len(d) |-> IF d[i][1] = k THEN <<k, v>> ELSE d[i]]
    ELSE Append(d, <<k, v>>)

\* {**d, **e}
RECURSIVE DictMerge(_, _)
DictMerge(d, e) ==
    IF e = <<>> THEN d
    ELSE DictMerge(DictSet(d, Head(e)[1], Head(e)[2]), Tail(e))

\* a table frozen when the module is loaded, the registry being empty then
DispatchFrozen(reg) == FixedDispatch

\* a table that lists the custom checks before the fixed ones
DispatchCustomFirst(reg) == DictMerge(reg, FixedDispatch)

\* the table is built from the registry as it is when the function is called
check_dispatch(reg) == DictMerge(FixedDispatch, reg)

-----------------------------------------------------------------------------
(* Field *)

\* one invocation of a check constructor; key is the table key whose iteration
\* made it
Invocation(key, ctor, args, kwargs) ==
    [key |-> key, ctor |-> ctor, args |-> args, kwargs |-> kwargs]

\* the check object a constructor returns: opaque, known by how it was built
CheckOf(inv) == [ctor |-> inv.ctor, args |-> inv.args, kwargs |-> inv.kwargs]

\* the loop over check_dispatch.items(), from entry i on; inv are the
\* invocations made so far
RECURSIVE DispatchLoop(_, _, _, _)
DispatchLoop(d, i, c, inv) ==
    IF i > Len(d) THEN [status |-> "returned", invoked |-> inv]
    ELSE
        LET arg_name == d[i][1]
            check_constructor == d[i][2]
            arg_value == ArgValue(c, arg_name)
        IN  IF arg_value = None THEN DispatchLoop(d, i + 1, c, inv)
            ELSE IF arg_value.kind = "dict"
            THEN IF Keys(arg_value) \cap Keys(check_kwargs(c)) # {}
                 THEN \* a keyword given twice in one call
                      [status |-> "TypeError", invoked |-> inv]
                 ELSE DispatchLoop(d, i + 1, c,
                        Append(inv, Invocation(arg_name, check_constructor, <<>>,
                                   arg_value.items \cup check_kwargs(c).items)))
            ELSE DispatchLoop(d, i + 1, c,
                    Append(inv, Invocation(arg_name, check_constructor, <<arg_value>>,
                               check_kwargs(c).items)))

\* the message of the SchemaInitError
SchemaInitErrorMessage(key) ==
    "custom check '" \o key \o "' is not available. Make sure you use "
    \o "pandera.extensions.register_check_method decorator to "
    \o "register your custom check method."

NoInfo == [kind |-> "NoInfo"]

\* checks or None
ChecksOrNone(checks) ==
    IF checks = <<>> THEN None ELSE [kind |-> "list", elems |-> checks]

\* FieldInfo(...): original_name is left for the schema model to assign
FieldInfo(checks, c) ==
    [kind |-> "FieldInfo",
     checks |-> checks,
     nullable |-> Local(c, "nullable"),
     unique |-> Local(c, "unique"),
     coerce |-> Local(c, "coerce"),
     regex |-> Local(c, "regex"),
     check_name |-> Local(c, "check_name"),
     alias |-> Local(c, "alias"),
     title |-> Local(c, "title"),
     description |-> Local(c, "description"),
     default |-> Local(c, "default"),
     dtype_kwargs |-> Local(c, "dtype_kwargs"),
     metadata |-> Local(c, "metadata"),
     return_expresion |-> Local(c, "return_expresion"),
     original_name |-> None]

\* the positions of the **kwargs keys the table does not hold
UnknownAt(c, d) ==
    LET kwargs == Kwargs(c)
        known == DictKeys(d)
    IN  {i \in 1..Len(kwargs) : kwargs[i][1] \notin known}

Min(S) == CHOOSE x \in S : \A y \in S : x <= y

\* Field with the keywords validated after the checks were constructed
FieldValidatesLate(c, reg) ==
    LET d == check_dispatch(reg)
        r == DispatchLoop(d, 1, c, <<>>)
    IN  IF UnknownAt(c, d) # {}
        THEN [status |-> "SchemaInitError",
              message |-> SchemaInitErrorMessage(Kwargs(c)[Min(UnknownAt(c, d))][1]),
              invoked |-> r.invoked, info |-> NoInfo]
        ELSE IF r.status = "TypeError"
        THEN [status |-> "TypeError", message |-> "",
              invoked |-> r.invoked, info |-> NoInfo]
        ELSE [status |-> "returned", message |-> "",
              invoked |-> r.invoked,
              info |-> FieldInfo(
                  ChecksOrNone([i \in 1..Len(r.invoked) |-> CheckOf(r.invoked[i])]),
                  c)]

Field(c, reg) ==
    LET d == check_dispatch(reg)
    IN  IF UnknownAt(c, d) # {}
        THEN [status |-> "SchemaInitError",
              message |-> SchemaInitErrorMessage(Kwargs(c)[Min(UnknownAt(c, d))][1]),
              invoked |-> <<>>, info |-> NoInfo]
        ELSE LET r == DispatchLoop(d, 1, c, <<>>)
             IN  IF r.status = "TypeError"
                 THEN [status |-> "TypeError", message |-> "",
                       invoked |-> r.invoked, info |-> NoInfo]
                 ELSE [status |-> "returned", message |-> "",
                       invoked |-> r.invoked,
                       info |-> FieldInfo(
                           ChecksOrNone([i \in 1..Len(r.invoked) |-> CheckOf(r.invoked[i])]),
                           c)]

-----------------------------------------------------------------------------
(* FieldInfo.name *)

Truthy(v) ==
    CASE v.kind = "bool" -> v.b
      [] v.kind = "int" -> v.v # 0
      [] v.kind = "str" -> v.s # ""
      [] v.kind = "dict" -> v.items # {}
      [] OTHER -> FALSE

\* polars.col: an opaque constructor, known by its argument
col(x) == [kind |-> "Expr", arg |-> x]

TypeError == [kind |-> "TypeError"]

\* "^" + x + "$"
Anchor(x) == IF x.kind = "str" THEN PyStr("^" \o x.s \o "$") ELSE TypeError

\* lines 41-46: the value returned for the resolved name n
Emit(self, n) ==
    IF Truthy(self.return_expresion)
    THEN IF Truthy(self.regex)
         THEN IF Anchor(n) = TypeError THEN TypeError ELSE col(Anchor(n))
         ELSE col(n)
    ELSE n

\* name with original_name winning over the alias once it is assigned
nameOriginalFirst(self) ==
    [result |-> Emit(self, IF self.original_name # None THEN self.original_name
                           ELSE self.alias),
     self |-> self]

\* name with the anchors applied whenever regex is set, in plain mode too
nameAnchorsPlain(self) ==
    LET n == IF self.alias # None THEN self.alias ELSE self.original_name
        a == IF Truthy(self.regex) /\ Anchor(n) # TypeError THEN Anchor(n) ELSE n
    IN  [result |-> IF Truthy(self.return_expresion) THEN col(a) ELSE a,
         self |-> self]

\* name with the anchored pattern stored back into the descriptor
nameStoresAnchored(self) ==
    LET n == IF self.alias # None THEN self.alias ELSE self.original_name
        anchored == Truthy(self.return_expresion) /\ Truthy(self.regex)
                    /\ Anchor(n) # TypeError
    IN  [result |-> Emit(self, n),
         self |-> IF ~anchored THEN self
                  ELSE IF self.alias # None THEN [self EXCEPT !.alias = Anchor(n)]
                  ELSE [self EXCEPT !.original_name = Anchor(n)]]

\* the property: what it returns (or raises) and the descriptor it leaves
name(self) ==
    LET return_name == IF self.alias # None THEN self.alias ELSE self.original_name
    IN  [result |-> Emit(self, return_name), self |-> self]

-----------------------------------------------------------------------------
(* The calls the scenarios draw *)

FixedKeys == DictKeys(FixedDispatch)

\* the named parameters that are constraint keywords
ConstraintParams == FixedKeys \cap ParamNames

DictA == PyDict({<<"min_value", PyInt(1)>>})
DictShared == PyDict({<<"ignore_na", PyBool(FALSE)>>})

\* the values drawn for a keyword
Dom(n) ==
    CASE n \in {"in_range", "str_length"} -> {PyInt(0), DictA, DictShared}
      [] n = "eq" -> {None, PyInt(0), DictA}
      [] n \in FixedKeys -> {PyInt(0), DictA}
      [] n \in {"nullable", "unique", "coerce", "regex", "return_expresion",
                "raise_warning"} -> {PyBool(TRUE)}
      [] n = "ignore_na" -> {PyBool(FALSE)}
      [] n = "n_failure_cases" -> {PyInt(1)}
      [] n = "alias" -> {PyStr("b"), PyStr("x")}
      [] OTHER -> {None, PyInt(0), DictA}

\* the calls that supply at most k of the keywords N, each once, in any order
RECURSIVE Calls(_, _)
Calls(N, k) ==
    IF k = 0 THEN {<<>>}
    ELSE LET P == Calls(N, k - 1)
         IN  P \cup UNION {UNION {{Append(c, <<n, v>>) : v \in Dom(n)}
                                   : n \in N \ CallNames(c)}
                           : c \in {q \in P : Len(q) = k - 1}}

CustomNames == {"my_check", "other_check", "unique"}

\* the keywords of the calls that supply several
CompileNames ==
    {"gt", "in_range", "between", "str_startswith", "my_check", "other_check",
     "unique", "ignore_na", "n_failure_cases"}

\* every constraint keyword alone, and the calls of several keywords
CompileCalls ==
    Calls(FixedKeys \cup {"my_check", "other_check"}, 1) \cup Calls(CompileNames, MaxArgs)

NameCalls == Calls({"alias", "regex", "return_expresion", "gt"}, MaxArgs + 1)

LifeCalls == Calls({"gt", "my_check"}, MaxArgs)

-----------------------------------------------------------------------------
(* The operations *)

NoOutcome == [status |-> "none", message |-> "", invoked |-> <<>>, fid |-> 0]

NoNames == [fid |-> 0, results |-> <<>>]

Init ==
    /\ REGISTERED_CUSTOM_CHECKS = <<>>
    /\ fields = <<>>
    /\ ncalls = 0
    /\ call = <<>>
    /\ outcome = NoOutcome
    /\ rejected = {}
    /\ names = NoNames

\* the function a registration stores under a name
Registered(n) == "registered." \o n

\* register_check_method: Check.REGISTERED_CUSTOM_CHECKS[n] = the function
RegisterCheck(n) ==
    /\ n \notin DictKeys(REGISTERED_CUSTOM_CHECKS)
    /\ REGISTERED_CUSTOM_CHECKS' = DictSet(REGISTERED_CUSTOM_CHECKS, n, Registered(n))
    /\ UNCHANGED <<fields, ncalls, call, outcome, rejected, names>>

\* the descriptors when every FieldInfo holds the one list the checks are
\* collected in
ReturnedSharingChecks(fs, info) ==
    Append([i \in 1..Len(fs) |-> [fs[i] EXCEPT !.checks = info.checks]], info)

\* the descriptors after Field returned a new FieldInfo
Returned(fs, info) == Append(fs, info)

\* one call of Field with keyword arguments drawn from C, the cap-th call at most
FieldCall(C, cap) ==
    /\ ncalls < cap
    /\ \E c \in C :
       LET r == Field(c, REGISTERED_CUSTOM_CHECKS)
       IN  /\ fields' = IF r.status = "returned" THEN Returned(fields, r.info) ELSE fields
           /\ outcome' = [status |-> r.status, message |-> r.message,
                          invoked |-> r.invoked,
                          fid |-> IF r.status = "returned" THEN Len(fields) + 1 ELSE 0]
           /\ rejected' = IF r.status = "SchemaInitError"
                          THEN rejected \cup {Kwargs(c)[Min(UnknownAt(c,
                                   check_dispatch(REGISTERED_CUSTOM_CHECKS)))][1]}
                          ELSE rejected
           /\ call' = c
    /\ ncalls' = ncalls + 1
    /\ UNCHANGED <<REGISTERED_CUSTOM_CHECKS, names>>

\* the schema model assigns the attribute name to descriptor i
SetOriginalName(i, n) ==
    /\ i \in 1..Len(fields)
    /\ fields[i].original_name # n
    /\ fields' = [fields EXCEPT ![i].original_name = n]
    /\ names' = NoNames
    /\ UNCHANGED <<REGISTERED_CUSTOM_CHECKS, ncalls, call, outcome, rejected>>

\* descriptor i is given an alias, or its alias is cleared
SetAlias(i, a) ==
    /\ i \in 1..Len(fields)
    /\ fields[i].alias # a
    /\ fields' = [fields EXCEPT ![i].alias = a]
    /\ names' = NoNames
    /\ UNCHANGED <<REGISTERED_CUSTOM_CHECKS, ncalls, call, outcome, rejected>>

\* the last two results of the resolutions on one descriptor
Logged(log, i, result) ==
    IF log.fid # i THEN [fid |-> i, results |-> <<result>>]
    ELSE IF Len(log.results) < 2 THEN [fid |-> i, results |-> Append(log.results, result)]
    ELSE [fid |-> i, results |-> <<log.results[2], result>>]

\* fields[i].name is read
ResolveName(i) ==
    /\ i \in 1..Len(fields)
    /\ fields' = [fields EXCEPT ![i] = name(fields[i]).self]
    /\ names' = Logged(names, i, name(fields[i]).result)
    /\ UNCHANGED <<REGISTERED_CUSTOM_CHECKS, ncalls, call, outcome, rejected>>

-----------------------------------------------------------------------------
(* Specifications *)

\* one Field call against any registry
Next ==
    \/ \E n \in CustomNames : RegisterCheck(n)
    \/ FieldCall(CompileCalls, 1)

Spec == Init /\ [][Next]_vars

\* one descriptor, its names assigned and resolved
NextName ==
    \/ FieldCall(NameCalls, 1)
    \/ \E i \in 1..Len(fields), n \in {PyStr("a"), PyStr("c")} : SetOriginalName(i, n)
    \/ \E i \in 1..Len(fields), a \in {None, PyStr("b"), PyStr("x")} : SetAlias(i, a)
    \/ \E i \in 1..Len(fields) : ResolveName(i)

SpecName == Init /\ [][NextName]_vars

\* several Field calls, registrations and resolutions
NextLife ==
    \/ \E n \in {"my_check"} : RegisterCheck(n)
    \/ FieldCall(LifeCalls, MaxCalls)
    \/ \E i \in 1..Len(fields) : ResolveName(i)

SpecLife == Init /\ [][NextLife]_vars

-----------------------------------------------------------------------------
(* Vocabulary of the properties *)

\* a step that is a call of Field
FieldStep == ncalls' = ncalls + 1

\* the supplied keywords that are constraint keywords (not descriptor
\* properties or shared options) and carry a value other than None
SuppliedConstraints(c) ==
    {k \in CallNames(c) : (k \in ConstraintParams \/ k \notin ParamNames)
                          /\ CallValue(c, k) # None}

\* the supplied keywords that are no parameter of Field, no fixed constraint
\* and not registered
UnknownKeywords(c, reg) ==
    {k \in CallNames(c) \ ParamNames : k \notin FixedKeys /\ k \notin DictKeys(reg)}

Position(c, k) == CHOOSE i \in 1..Len(c) : c[i][1] = k

FirstUnknown(c, reg) ==
    CHOOSE k \in UnknownKeywords(c, reg) :
        \A j \in UnknownKeywords(c, reg) : Position(c, k) <= Position(c, j)

\* the shared options of a call, as the caller gave them or by default
SharedOptions(c) ==
    {<<"ignore_na", IF "ignore_na" \in CallNames(c) THEN CallValue(c, "ignore_na")
                    ELSE PyBool(TRUE)>>,
     <<"raise_warning", IF "raise_warning" \in CallNames(c)
                        THEN CallValue(c, "raise_warning") ELSE PyBool(FALSE)>>,
     <<"n_failure_cases", IF "n_failure_cases" \in CallNames(c)
                          THEN CallValue(c, "n_failure_cases") ELSE None>>}

\* the keys of the invocations, in the order they were made
InvokedKeys(inv) == [i \in 1..Len(inv) |-> inv[i].key]

\* the declaration order of the table: the fixed keywords, then the custom checks
DeclarationOrder(reg) ==
    <<"eq", "ne", "gt", "ge", "lt", "le", "in_range", "between", "isin", "notin",
      "str_contains", "str_endswith", "str_matches", "str_length", "str_startswith",
      "unique_values_eq">> \o [i \in 1..Len(reg) |-> reg[i][1]]

\* the members of a set of keywords, in declaration order
InDeclarationOrder(reg, K) ==
    LET In(k) == k \in K
    IN  SelectSeq(DeclarationOrder(reg), In)

\* the same keyword arguments in every order
Reorderings(c) ==
    {[i \in 1..Len(c) |-> c[f[i]]] : f \in Permutations(1..Len(c))}

-----------------------------------------------------------------------------
(* C1 *)

\* C1: a Field call that supplies a keyword which is neither a fixed
\* constraint nor registered raises SchemaInitError, the message names the
\* first such keyword, no check constructor has been invoked and no FieldInfo
\* is returned.
C1_UnknownKeywordFailsFast ==
    [][(FieldStep /\ UnknownKeywords(call', REGISTERED_CUSTOM_CHECKS) # {}) =>
          /\ outcome'.status = "SchemaInitError"
          /\ outcome'.message =
                "custom check '" \o FirstUnknown(call', REGISTERED_CUSTOM_CHECKS)
                \o "' is not available. Make sure you use "
                \o "pandera.extensions.register_check_method decorator to "
                \o "register your custom check method."
          /\ outcome'.invoked = <<>>
          /\ outcome'.fid = 0
          /\ fields' = fields]_vars

\* an unregistered keyword was supplied together with a valid constraint
C1_Witness ==
    /\ outcome.status = "SchemaInitError"
    /\ SuppliedConstraints(call) \cap FixedKeys # {}
    /\ outcome.invoked = <<>>
    /\ fields = <<>>

-----------------------------------------------------------------------------
(* C2 *)

\* C2: the checks of a returned FieldInfo are the checks constructed, in the
\* declaration order of the table (fixed keywords, then custom checks), they
\* include one for every constraint keyword supplied, and the same keyword
\* arguments in any other order give the same checks.
C2_DeclarationOrder ==
    [][(FieldStep /\ outcome'.status = "returned") =>
          LET inv == outcome'.invoked
              reg == REGISTERED_CUSTOM_CHECKS
          IN  /\ fields'[outcome'.fid].checks =
                    ChecksOrNone([i \in 1..Len(inv) |-> CheckOf(inv[i])])
              /\ InvokedKeys(inv) = InDeclarationOrder(reg, SeqRange(InvokedKeys(inv)))
              /\ SuppliedConstraints(call') \subseteq SeqRange(InvokedKeys(inv))
              /\ \A p \in Reorderings(call') :
                    Field(p, reg).info.checks = fields'[outcome'.fid].checks]_vars

\* a custom check and two fixed constraints were supplied, the custom first and
\* the fixed ones against their declaration order
C2_Witness ==
    /\ outcome.status = "returned"
    /\ Len(call) >= 2
    /\ call[1][1] \notin FixedKeys \cup ParamNames
    /\ call[2][1] \in FixedKeys
    /\ Len(outcome.invoked) >= 2
    /\ outcome.invoked[1].key = call[2][1]
    /\ outcome.invoked[2].key = call[1][1]

-----------------------------------------------------------------------------
(* C3 *)

\* C3: a fixed constraint keyword supplied alone with a value other than None
\* makes Field invoke exactly one constructor, that keyword's, once: with the
\* value as the single positional argument, or with a mapping's entries as
\* named parameters, and with the three shared options as given to Field.
C3_SingleConstraintOneCheck ==
    [][(/\ FieldStep
        /\ Cardinality(SuppliedConstraints(call')) = 1
        /\ SuppliedConstraints(call') \subseteq FixedKeys) =>
          LET k == CHOOSE x \in SuppliedConstraints(call') : TRUE
              v == CallValue(call', k)
              ctor == FixedDispatch[CHOOSE i \in 1..Len(FixedDispatch) :
                                        FixedDispatch[i][1] = k][2]
          IN  /\ outcome'.status = "returned"
              /\ Len(outcome'.invoked) = 1
              /\ outcome'.invoked[1].ctor = ctor
              /\ IF v.kind = "dict"
                 THEN /\ outcome'.invoked[1].args = <<>>
                      /\ outcome'.invoked[1].kwargs = v.items \cup SharedOptions(call')
                 ELSE /\ outcome'.invoked[1].args = <<v>>
                      /\ outcome'.invoked[1].kwargs = SharedOptions(call')]_vars

-----------------------------------------------------------------------------
(* C4 *)

\* C4: a Field call in which no constraint keyword has a value other than None
\* invokes no constructor and returns a FieldInfo built with checks None.
C4_NoConstraintNoChecks ==
    [][(FieldStep /\ SuppliedConstraints(call') = {}
                  /\ UnknownKeywords(call', REGISTERED_CUSTOM_CHECKS) = {}) =>
          /\ outcome'.status = "returned"
          /\ outcome'.invoked = <<>>
          /\ fields'[outcome'.fid].checks = None]_vars

-----------------------------------------------------------------------------
(* C5 *)

\* C5: a Field call raises SchemaInitError exactly when one of its keywords
\* that is no fixed constraint is missing from the registry as it is at that
\* call, the error names such a keyword, and a call that returns has built a
\* check with the registered function for every such keyword it gave a value.
C5_RegistryReadAtEachCall ==
    [][FieldStep =>
          LET reg == REGISTERED_CUSTOM_CHECKS
              custom == CallNames(call') \ (ParamNames \cup FixedKeys)
          IN  /\ outcome'.status = "SchemaInitError"
                    <=> (\E k \in custom : k \notin DictKeys(reg))
              /\ outcome'.status = "SchemaInitError" =>
                    \E k \in custom \ DictKeys(reg) :
                        outcome'.message = SchemaInitErrorMessage(k)
              /\ outcome'.status = "returned" =>
                    \A k \in custom : CallValue(call', k) # None =>
                        \E i \in 1..Len(outcome'.invoked), j \in 1..Len(reg) :
                            /\ outcome'.invoked[i].key = k
                            /\ reg[j] = <<k, outcome'.invoked[i].ctor>>]_vars

\* a keyword rejected by an earlier call was compiled by a later one
C5_Witness ==
    /\ "my_check" \in rejected
    /\ outcome.status = "returned"
    /\ \E i \in 1..Len(outcome.invoked) :
          /\ outcome.invoked[i].key = "my_check"
          /\ outcome.invoked[i].ctor = "registered.my_check"

-----------------------------------------------------------------------------
(* C6, C7, C8 *)

\* the descriptor the logged resolutions were made on, and the last of them
Resolved == fields[names.fid]
LastName == names.results[Len(names.results)]

\* a result made of the name n: the string, or an expression built from it
BuiltFrom(r, n) == r \in {n, col(n), col(PyStr("^" \o n.s \o "$"))}

\* C6: whatever the order in which original_name and alias were assigned, the
\* name resolves to the alias whenever one is set, in plain and in expression
\* mode, and to original_name only when no alias is set.
C6_AliasWins ==
    names.fid # 0 =>
        /\ Resolved.alias # None =>
              /\ BuiltFrom(LastName, Resolved.alias)
              /\ Resolved.original_name \notin {None, Resolved.alias} =>
                    ~BuiltFrom(LastName, Resolved.original_name)
        /\ (Resolved.alias = None /\ Resolved.original_name # None) =>
              BuiltFrom(LastName, Resolved.original_name)

\* the alias was assigned after Field returned and after original_name
C6_Witness ==
    /\ names.fid # 0
    /\ "alias" \notin CallNames(call)
    /\ Resolved.original_name = PyStr("a")
    /\ Resolved.alias = PyStr("b")
    /\ Resolved.return_expresion = PyBool(TRUE)
    /\ LastName = col(PyStr("b"))

\* C7: with effective name n, the name resolves to col("^" + n + "$") in
\* expression mode with regex, to col(n) in expression mode without, and to
\* the plain n outside expression mode, regex or not.
C7_AnchoredOnlyInExpressionMode ==
    names.fid # 0 =>
        LET n == IF Resolved.alias # None THEN Resolved.alias
                 ELSE Resolved.original_name
        IN  n # None =>
              LastName =
                 IF Resolved.return_expresion = PyBool(TRUE)
                 THEN IF Resolved.regex = PyBool(TRUE)
                      THEN [kind |-> "Expr", arg |-> PyStr("^" \o n.s \o "$")]
                      ELSE [kind |-> "Expr", arg |-> n]
                 ELSE n

\* a regex descriptor resolved in expression mode
C7_Witness ==
    /\ names.fid # 0
    /\ Resolved.alias = PyStr("x")
    /\ Resolved.regex = PyBool(TRUE)
    /\ Resolved.return_expresion = PyBool(TRUE)
    /\ LastName = [kind |-> "Expr", arg |-> PyStr("^x$")]

\* C8: a resolution leaves the descriptor as it was, and two resolutions in
\* succession, with no assignment in between, give equal results.
C8_ResolutionIsPure ==
    [][(\E i \in 1..Len(fields) : ResolveName(i)) =>
          /\ fields' = fields
          /\ Len(names'.results) = 2 => names'.results[1] = names'.results[2]]_vars

\* a regex descriptor was resolved twice in expression mode
C8_Witness ==
    /\ names.fid # 0
    /\ Len(names.results) = 2
    /\ Resolved.regex = PyBool(TRUE)
    /\ Resolved.return_expresion = PyBool(TRUE)
    /\ Resolved.alias = PyStr("b")
    /\ names.results[1] = col(PyStr("^b$"))

-----------------------------------------------------------------------------
(* C9 *)

\* C9: no operation changes the checks of a FieldInfo that Field has returned.
C9_ChecksStay ==
    [][\A i \in 1..Len(fields) :
          /\ i <= Len(fields')
          /\ fields'[i].checks = fields[i].checks]_vars

\* a descriptor with checks was resolved, and a later call built another
\* descriptor with a registered check
C9_Witness ==
    /\ Len(fields) = 2
    /\ fields[1].checks # None
    /\ fields[2].checks \notin {None, fields[1].checks}
    /\ REGISTERED_CUSTOM_CHECKS # <<>>
    /\ names.fid = 1

-----------------------------------------------------------------------------
(* C10 *)

\* C10: every check is built from the value the caller supplied for a
\* constraint keyword; the unique property, like every descriptor property and
\* shared option, contributes no check.
C10_ChecksOnlyFromConstraints ==
    [][FieldStep =>
          \A i \in 1..Len(outcome'.invoked) :
              LET e == outcome'.invoked[i]
              IN  /\ e.key \in SuppliedConstraints(call')
                  /\ \/ e.args = <<CallValue(call', e.key)>>
                     \/ /\ CallValue(call', e.key).kind = "dict"
                        /\ CallValue(call', e.key).items \subseteq e.kwargs]_vars

====
